---- MODULE Spec2Model ----
(***************************************************************************)
(* Filter expression language of gonobo/jsonapi (package query/filter):    *)
(* the tokenizer and precedence-climbing AST builder (criteria.go), the    *)
(* expression model (package query), the URL-query parser (parser.go) and  *)
(* the two serializers (generator.go, builder.go).                         *)
(*                                                                         *)
(* Strings that the code inspects character by character (the q text, the  *)
(* tokens, the identifiers) are sequences of one-character strings.        *)
(* Strings that the code only copies or tests for emptiness (a filter's    *)
(* name, condition and value, error messages) are plain strings.           *)
(***************************************************************************)
EXTENDS Integers, Sequences, FiniteSets, TLC

VARIABLES
    op,       \* the operation that produced the current state
    tokens,   \* astBuilder.build: the token list handed to build
    ast,      \* astBuilder.build: [node, err] returned by build
    expr,     \* the expression tree handed to a serializer
    values,   \* the parameter map (url.Values / map[string]string)
    serr,     \* the error returned by the serializer
    assigned, \* the identifiers the serializer gave the leaves, in walk order
    origin,   \* who filled values: "client", "Generate" or "BuildQuery"
    transformer, \* the Transformer handed to the parser, or called itself
    parsed,   \* the parser's or transformer's result [expr, err]
    called,   \* the methods the call invoked on its collaborator, in order
    gen,      \* two Generate calls in progress side by side
    after     \* the expression tree as it stands in memory after the call

vars == <<op, tokens, ast, expr, values, serr, assigned, origin, transformer,
          parsed, called, gen, after>>

----------------------------------------------------------------------------
(* Bounds of the model.                                                    *)

\* longest token list drawn from the whole token alphabet
MaxTokens == 4
\* most operands in a chain x1 op x2 op ... op xn
MaxChain == 4
\* most And/Or/Not nodes in an expression tree handed to a serializer
MaxOps == 3
\* most words in a q text drawn from the whole word alphabet
MaxWords == 3
\* most And/Or/Not nodes in a tree that may hold identity and custom leaves
MaxMixedOps == 2

----------------------------------------------------------------------------
(* Characters and strings.                                                 *)

\* strings.ToLower on one character
toLowerChar(c) ==
    CASE c = "A" -> "a"
      [] c = "D" -> "d"
      [] c = "N" -> "n"
      [] c = "O" -> "o"
      [] c = "P" -> "p"
      [] c = "R" -> "r"
      [] c = "S" -> "s"
      [] c = "T" -> "t"
      [] OTHER -> c

\* strings.ToLower
ToLower(s) == [i \in 1..Len(s) |-> toLowerChar(s[i])]

\* the operator keywords, parser.go
OperationAND == <<"a", "n", "d">>
OperationOR == <<"o", "r">>
OperationNOT == <<"n", "o", "t">>

\* a nil error; an error is the sequence of its messages
NoErr == <<>>

\* mutant: the second error is dropped when there is a first
JoinKeepsFirst(e1, e2) == IF e1 # NoErr THEN e1 ELSE e2

\* errors.Join: nil when every argument is nil
Join(e1, e2) == e1 \o e2

----------------------------------------------------------------------------
(* Tokenizer and AST builder, criteria.go.                                 *)

symbolUndefined == 0
symbolAND == 1
symbolOR == 2
symbolNOT == 3
symbolVAR == 4

assocUndefined == 0
assocLeft == 1
assocRight == 2

isOperation(s) == s \in {symbolAND, symbolOR, symbolNOT}

\* mutant: AND and OR exchange their precedence
precedenceOrOverAnd(s) ==
    CASE s = symbolNOT -> 3
      [] s = symbolAND -> 1
      [] s = symbolOR -> 2
      [] OTHER -> -1

precedence(s) ==
    CASE s = symbolNOT -> 3
      [] s = symbolAND -> 2
      [] s = symbolOR -> 1
      [] OTHER -> -1

\* mutant: the binary operators associate to the right
associativityRight(s) ==
    CASE s = symbolNOT -> assocLeft
      [] s = symbolAND -> assocRight
      [] s = symbolOR -> assocRight
      [] OTHER -> assocUndefined

associativity(s) ==
    CASE s = symbolNOT -> assocLeft
      [] s = symbolAND -> assocLeft
      [] s = symbolOR -> assocLeft
      [] OTHER -> assocUndefined

\* the nil *node
NilNode == [nil |-> TRUE]

\* the zero token
ZeroToken == [value |-> <<>>, symbol |-> symbolUndefined]

\* mutant: the keywords are matched in lower case only
tokenFromStringExact(str) ==
    [value |-> str,
     symbol |-> CASE str = OperationAND -> symbolAND
                  [] str = OperationNOT -> symbolNOT
                  [] str = OperationOR -> symbolOR
                  [] OTHER -> symbolVAR]

\* lex.tokenFromString
tokenFromString(str) ==
    [value |-> str,
     symbol |-> CASE ToLower(str) = OperationAND -> symbolAND
                  [] ToLower(str) = OperationNOT -> symbolNOT
                  [] ToLower(str) = OperationOR -> symbolOR
                  [] OTHER -> symbolVAR]

\* mutant: the cursor just past the last token still reports a token
peekPastEnd(toks, position) ==
    IF position > Len(toks)
    THEN [token |-> ZeroToken, ok |-> FALSE]
    ELSE IF position = Len(toks)
    THEN [token |-> ZeroToken, ok |-> TRUE]
    ELSE [token |-> tokenFromString(toks[position + 1]), ok |-> TRUE]

\* lex.peek with the cursor at position (0-based, as in the code)
peek(toks, position) ==
    IF position >= Len(toks)
    THEN [token |-> ZeroToken, ok |-> FALSE]
    ELSE [token |-> tokenFromString(toks[position + 1]), ok |-> TRUE]

\* lex.next: the token under the cursor and the cursor moved by one,
\* also when the list is exhausted
next(toks, position) ==
    [token |-> peek(toks, position).token,
     ok |-> peek(toks, position).ok,
     position |-> position + 1]

\* mutant: the operands of a node are exchanged
NodeSwapped(t, l, r) == [token |-> t, left |-> r, right |-> l]

\* &node{token: t, left: l, right: r}
Node(t, l, r) == [token |-> t, left |-> l, right |-> r]

RECURSIVE primary(_, _)
RECURSIVE parseNode(_, _, _, _)
RECURSIVE parseRight(_, _, _, _)

\* mutant: NOT takes the whole expression that follows it
primaryNotTakesExpression(toks, position) ==
    LET n == next(toks, position)
    IN  IF ~n.ok
        THEN [node |-> NilNode, err |-> <<"empty token list">>,
              position |-> n.position]
        ELSE IF n.token.symbol = symbolNOT
        THEN LET l == primary(toks, n.position)
                 e == IF l.err # NoErr THEN l
                      ELSE parseNode(toks, l.position, l.node, 0)
             IN  [node |-> Node(n.token, e.node, NilNode), err |-> e.err,
                  position |-> e.position]
        ELSE IF n.token.symbol = symbolVAR
        THEN [node |-> Node(n.token, NilNode, NilNode), err |-> NoErr,
              position |-> n.position]
        ELSE [node |-> NilNode,
              err |-> <<"expected variable as first token">>,
              position |-> n.position]

\* astBuilder.primary: [node, err, position]
primary(toks, position) ==
    LET n == next(toks, position)
    IN  IF ~n.ok
        THEN [node |-> NilNode, err |-> <<"empty token list">>,
              position |-> n.position]
        ELSE IF n.token.symbol = symbolNOT
        THEN LET l == primary(toks, n.position)
             IN  [node |-> Node(n.token, l.node, NilNode), err |-> l.err,
                  position |-> l.position]
        ELSE IF n.token.symbol = symbolVAR
        THEN [node |-> Node(n.token, NilNode, NilNode), err |-> NoErr,
              position |-> n.position]
        ELSE [node |-> NilNode,
              err |-> <<"expected variable as first token">>,
              position |-> n.position]

\* the condition that keeps parseNode's inner loop running (lines 203-206)
raisesPrecedence(lookahead, operator) ==
    \/ precedence(lookahead.symbol) > precedence(operator.symbol)
    \/ /\ associativity(lookahead.symbol) = assocRight
       /\ precedence(lookahead.symbol) = precedence(operator.symbol)

\* the inner loop of parseNode (lines 191-213): raises the right operand
\* while the lookahead operator binds tighter than operator
parseRight(toks, position, right, operator) ==
    LET lookahead == peek(toks, position)
    IN  IF ~lookahead.ok \/ ~isOperation(lookahead.token.symbol)
        THEN [node |-> right, err |-> NoErr, position |-> position]
        ELSE IF ~raisesPrecedence(lookahead.token, operator)
        THEN [node |-> right, err |-> NoErr, position |-> position]
        ELSE LET r == parseNode(toks, position, right,
                                precedence(lookahead.token.symbol))
             IN  IF r.err # NoErr
                 THEN [node |-> NilNode, err |-> r.err,
                       position |-> r.position]
                 ELSE parseRight(toks, r.position, r.node, operator)

\* mutant: an operator whose right operand cannot be read is dropped and
\* the tree built so far is returned without error
parseNodeDropsOperator(toks, position, left, minPrecendence) ==
    LET operator == peek(toks, position)
    IN  IF \/ ~operator.ok
           \/ ~isOperation(operator.token.symbol)
           \/ precedence(operator.token.symbol) < minPrecendence
        THEN [node |-> left, err |-> NoErr, position |-> position]
        ELSE LET right == primary(toks, next(toks, position).position)
             IN  IF right.err # NoErr
                 THEN [node |-> left, err |-> NoErr,
                       position |-> right.position]
                 ELSE LET raised == parseRight(toks, right.position,
                                               right.node, operator.token)
                      IN  IF raised.err # NoErr
                          THEN [node |-> NilNode, err |-> raised.err,
                                position |-> raised.position]
                          ELSE parseNode(toks, raised.position,
                                         Node(operator.token, left,
                                              raised.node),
                                         minPrecendence)

\* astBuilder.parseNode: [node, err, position]
parseNode(toks, position, left, minPrecendence) ==
    LET operator == peek(toks, position)
    IN  IF \/ ~operator.ok
           \/ ~isOperation(operator.token.symbol)
           \/ precedence(operator.token.symbol) < minPrecendence
        THEN [node |-> left, err |-> NoErr, position |-> position]
        ELSE LET right == primary(toks, next(toks, position).position)
             IN  IF right.err # NoErr
                 THEN [node |-> NilNode, err |-> right.err,
                       position |-> right.position]
                 ELSE LET raised == parseRight(toks, right.position,
                                               right.node, operator.token)
                      IN  IF raised.err # NoErr
                          THEN [node |-> NilNode, err |-> raised.err,
                                position |-> raised.position]
                          ELSE parseNode(toks, raised.position,
                                         Node(operator.token, left,
                                              raised.node),
                                         minPrecendence)

\* mutant: build hands on what primary returned together with its error
buildKeepsNode(toks) ==
    LET first == primary(toks, 0)
    IN  IF first.err # NoErr
        THEN first
        ELSE parseNode(toks, first.position, first.node, 0)

\* mutant: tokens left over when parseNode returns are a syntax error
buildRejectsRest(toks) ==
    LET first == primary(toks, 0)
        r == parseNode(toks, first.position, first.node, 0)
    IN  IF first.err # NoErr
        THEN [node |-> NilNode, err |-> first.err, position |-> first.position]
        ELSE IF r.err = NoErr /\ r.position < Len(toks)
        THEN [node |-> NilNode, err |-> <<"unexpected token">>,
              position |-> r.position]
        ELSE r

\* astBuilder.build: the lexer starts at position 0
build(toks) ==
    LET first == primary(toks, 0)
    IN  IF first.err # NoErr
        THEN [node |-> NilNode, err |-> first.err, position |-> first.position]
        ELSE parseNode(toks, first.position, first.node, 0)

----------------------------------------------------------------------------
(* Expression model, package query.                                        *)

\* the nil FilterExpression
NilExpr == [kind |-> "nil"]

\* query.Filter
Filter(name, condition, value) ==
    [kind |-> "Filter", Name |-> name, Condition |-> condition,
     Value |-> value]

\* the FilterCondition constants
FilterConditions ==
    {"eq", "neq", "contains", "lt", "lte", "gt", "gte", "starts_with"}

\* query.AndFilter
AndFilter(l, r) == [kind |-> "And", Left |-> l, Right |-> r]

\* query.OrFilter
OrFilter(l, r) == [kind |-> "Or", Left |-> l, Right |-> r]

\* query.NotFilter
NotFilter(e) == [kind |-> "Not", Value |-> e]

\* query.IdentityFilter
IdentityFilter == [kind |-> "Identity"]

\* a custom expression: a FilterExpression of the caller's own type, whose
\* ApplyFilterEvaluator invokes EvaluateCustomFilter as the interface asks
CustomFilter == [kind |-> "Custom"]

RECURSIVE String(_)
\* the String methods of the expressions; a nil operand prints as fmt
\* prints a nil interface under %s
String(e) ==
    CASE e.kind = "Filter" ->
           "[" \o e.Name \o " " \o e.Condition \o " '" \o e.Value \o "']"
      [] e.kind = "And" ->
           "(" \o String(e.Left) \o " && " \o String(e.Right) \o ")"
      [] e.kind = "Or" ->
           "(" \o String(e.Left) \o " || " \o String(e.Right) \o ")"
      [] e.kind = "Not" -> "!" \o String(e.Value)
      [] e.kind = "Identity" -> "TRUE"
      [] OTHER -> "%!s(<nil>)"

\* the methods of the FilterEvaluator interface
EvaluatorMethods ==
    {"EvaluateFilter", "EvaluateAndFilter", "EvaluateOrFilter",
     "EvaluateNotFilter", "EvaluateIdentityFilter", "EvaluateCustomFilter"}

\* An evaluator that does nothing but return is described by the set of
\* its methods that return an error.

\* the error the method of such an evaluator returns
EvaluatorResult(failing, method) ==
    IF method \in failing THEN <<method \o " failed">> ELSE NoErr

\* mutant: an OrFilter invokes the method of the AndFilter
applyOrAsAnd(x) ==
    CASE x.kind = "Filter" -> [method |-> "EvaluateFilter", arg |-> x]
      [] x.kind \in {"And", "Or"} -> [method |-> "EvaluateAndFilter", arg |-> x]
      [] x.kind = "Not" -> [method |-> "EvaluateNotFilter", arg |-> x]
      [] x.kind = "Identity" -> [method |-> "EvaluateIdentityFilter"]
      [] OTHER -> [method |-> "EvaluateCustomFilter", arg |-> x]

\* the ApplyFilterEvaluator methods of the expressions: the method of the
\* evaluator that is invoked, and its argument
ApplyFilterEvaluator(x) ==
    CASE x.kind = "Filter" -> [method |-> "EvaluateFilter", arg |-> x]
      [] x.kind = "And" -> [method |-> "EvaluateAndFilter", arg |-> x]
      [] x.kind = "Or" -> [method |-> "EvaluateOrFilter", arg |-> x]
      [] x.kind = "Not" -> [method |-> "EvaluateNotFilter", arg |-> x]
      [] x.kind = "Identity" -> [method |-> "EvaluateIdentityFilter"]
      [] OTHER -> [method |-> "EvaluateCustomFilter", arg |-> x]

\* query.EvaluateFilter(evaluator, expr) for an evaluator that does nothing
\* but return: the error, and the invocations made on the evaluator, each
\* with what it returned
EvaluateFilter(failing, x) ==
    LET call == ApplyFilterEvaluator(x)
        result == EvaluatorResult(failing, call.method)
    IN  [err |-> result,
         called |-> <<[call |-> call, result |-> result]>>]

----------------------------------------------------------------------------
(* Parameter maps: url.Values and map[string]string.                       *)

\* the key "q"
QueryKeyFilterExpression == [ident |-> <<>>, field |-> "q"]

\* the key fmt.Sprintf("filter[%s][<field>]", ident)
FilterKey(ident, field) == [ident |-> ident, field |-> field]

\* the empty map
NoValues == <<>>

\* url.Values.Set, and the assignment params[key] = value
Set(m, key, value) ==
    [k \in (DOMAIN m) \cup {key} |-> IF k = key THEN value ELSE m[k]]

\* url.Values.Get, and the read params[key]: the empty string when the key
\* is absent
Get(m, key) == IF key \in DOMAIN m THEN m[key] ELSE ""

\* url.Values.Get of the q text, which is a sequence of characters
GetText(m, key) == IF key \in DOMAIN m THEN m[key] ELSE <<>>

\* filter.set
filterSet(m, ident, c) ==
    Set(Set(Set(m, FilterKey(ident, "name"), c.Name),
            FilterKey(ident, "condition"), c.Condition),
        FilterKey(ident, "value"), c.Value)

\* filter.get
filterGet(m, ident) ==
    Filter(Get(m, FilterKey(ident, "name")),
           Get(m, FilterKey(ident, "condition")),
           Get(m, FilterKey(ident, "value")))

----------------------------------------------------------------------------
(* Serializers: Generate (generator.go) and BuildQuery (builder.go).       *)

\* one decimal digit as a character
DigitChar(n) == <<"0", "1", "2", "3", "4", "5", "6", "7", "8", "9">>[n + 1]

RECURSIVE Decimal(_)
\* fmt's %d of a natural number
Decimal(n) ==
    IF n < 10 THEN <<DigitChar(n)>>
    ELSE Decimal(n \div 10) \o <<DigitChar(n % 10)>>

\* fmt.Sprintf("p%02d", n)
GenerateIdent(n) ==
    <<"p">> \o (IF n < 10 THEN <<"0">> ELSE <<>>) \o Decimal(n)

\* fmt.Sprintf("p%d", index)
name(index) == <<"p">> \o Decimal(index)

\* mutant: the generator accepts identity and custom expressions
unsupportedAccepted == <<>>

\* errors.ErrUnsupported
ErrUnsupported == <<"unsupported operation">>

\* the counter a NOT node's generator starts from
NotCounter(counter) == 0

RECURSIVE generatorEvaluate(_, _, _)
\* query.EvaluateFilter(g, e) for a urlQueryGenerator g whose counter holds
\* counter and whose query holds query: the generator's expr, the query,
\* the error, the counter afterwards, and the identifiers given to leaves
generatorEvaluate(e, counter, query) ==
    CASE e.kind = "Filter" ->
           LET ident == GenerateIdent(counter + 1)
           IN  [expr |-> ident, query |-> filterSet(query, ident, e),
                err |-> NoErr, counter |-> counter + 1,
                idents |-> <<ident>>]
      [] e.kind \in {"And", "Or"} ->
           LET left == generatorEvaluate(e.Left, counter, query)
               right == generatorEvaluate(e.Right, left.counter, left.query)
               word == IF e.kind = "And" THEN <<" ", "a", "n", "d", " ">>
                       ELSE <<" ", "o", "r", " ">>
           IN  [expr |-> left.expr \o word \o right.expr,
                query |-> right.query,
                err |-> Join(left.err, right.err),
                counter |-> right.counter,
                idents |-> left.idents \o right.idents]
      [] e.kind = "Not" ->
           LET x == generatorEvaluate(e.Value, NotCounter(counter), query)
           IN  [expr |-> <<"n", "o", "t", " ">> \o x.expr,
                query |-> x.query, err |-> x.err, counter |-> counter,
                idents |-> x.idents]
      [] OTHER ->
           [expr |-> <<>>, query |-> query, err |-> ErrUnsupported,
            counter |-> counter, idents |-> <<>>]

\* Generate(expr, q): the counter starts at zero and q is set last
Generate(e, q) ==
    LET g == generatorEvaluate(e, 0, q)
    IN  [query |-> Set(g.query, QueryKeyFilterExpression, g.expr),
         err |-> g.err, idents |-> g.idents]

RECURSIVE leafVisits(_, _, _)
\* the leaves of e in the order the generators reach them, each with the
\* counter its generator holds: the counter Generate made (scope <<>>) or
\* the one made by the nearest NOT node above the leaf (scope <<2>> and the
\* path of that node; a path is a sequence of 0 for left and 1 for right)
leafVisits(e, path, scope) ==
    CASE e.kind = "Filter" -> <<[leaf |-> e, scope |-> scope]>>
      [] e.kind \in {"And", "Or"} ->
           leafVisits(e.Left, path \o <<0>>, scope)
           \o leafVisits(e.Right, path \o <<1>>, scope)
      [] e.kind = "Not" -> leafVisits(e.Value, path \o <<0>>, <<2>> \o path)
      [] OTHER -> <<>>

\* mutant: every call counts in one process-wide set of counters
counterCellShared(call, scope) == [call |-> 0, scope |-> scope]

\* the memory cell of a counter: new(counter) gives every Generate call,
\* and every NOT node in it, a cell of its own
counterCell(call, scope) == [call |-> call, scope |-> scope]

\* the value of a counter cell; new(counter) is zero
counterValue(counters, cell) ==
    IF cell \in DOMAIN counters THEN counters[cell] ELSE 0

RECURSIVE renderText(_, _)
\* the expr text of the generator of e when its leaves are given the
\* identifiers idents in order: [text, rest]
renderText(e, idents) ==
    CASE e.kind = "Filter" -> [text |-> Head(idents), rest |-> Tail(idents)]
      [] e.kind \in {"And", "Or"} ->
           LET left == renderText(e.Left, idents)
               right == renderText(e.Right, left.rest)
               word == IF e.kind = "And" THEN <<" ", "a", "n", "d", " ">>
                       ELSE <<" ", "o", "r", " ">>
           IN  [text |-> left.text \o word \o right.text, rest |-> right.rest]
      [] e.kind = "Not" ->
           LET x == renderText(e.Value, idents)
           IN  [text |-> <<"n", "o", "t", " ">> \o x.text, rest |-> x.rest]
      [] OTHER -> [text |-> <<>>, rest |-> idents]

\* no Generate calls side by side
NoCalls == [trees |-> <<>>, visited |-> <<>>, counters |-> <<>>,
            query |-> <<>>, idents |-> <<>>, returned |-> <<>>]

\* urlQueryGenerator.EvaluateFilter run by one of the calls of g on its
\* next leaf: the counter is incremented and the group is written
generatorVisit(g, call) ==
    LET visit == leafVisits(g.trees[call], <<>>, <<>>)[g.visited[call] + 1]
        cell == counterCell(call, visit.scope)
        n == counterValue(g.counters, cell) + 1
        ident == GenerateIdent(n)
    IN  [g EXCEPT !.visited[call] = @ + 1,
                  !.counters = Set(g.counters, cell, n),
                  !.query[call] = filterSet(@, ident, visit.leaf),
                  !.idents[call] = Append(@, ident)]

\* the end of one of the calls of g: q is set and Generate returns
generatorReturn(g, call) ==
    [g EXCEPT !.query[call] =
                  Set(@, QueryKeyFilterExpression,
                      renderText(g.trees[call], g.idents[call]).text),
              !.returned[call] = TRUE]

RECURSIVE builderEvaluate(_, _, _)
\* query.EvaluateFilter(&b, e) for a queryBuilder b with the given index
\* and an empty query text: the text written, the params, the error and
\* the identifiers given to leaves.  clone() raises the parent's index
\* and hands the new value to the child, so the children of a binary node
\* get index + 1 and index + 2.
builderEvaluate(e, index, params) ==
    CASE e.kind = "Filter" ->
           [query |-> name(index),
            params |-> filterSet(params, name(index), e),
            err |-> NoErr, idents |-> <<name(index)>>]
      [] e.kind \in {"And", "Or"} ->
           LET left == builderEvaluate(e.Left, index + 1, params)
               right == builderEvaluate(e.Right, index + 2, left.params)
               word == IF e.kind = "And" THEN <<" ", "A", "N", "D", " ">>
                       ELSE <<" ", "O", "R", " ">>
           IN  [query |-> left.query \o word \o right.query,
                params |-> right.params,
                err |-> Join(left.err, right.err),
                idents |-> left.idents \o right.idents]
      [] e.kind = "Not" ->
           LET value == builderEvaluate(e.Value, index + 1, params)
           IN  [query |-> <<"N", "O", "T", " ", "%", "s">>,
                params |-> value.params, err |-> value.err,
                idents |-> value.idents]
      [] e.kind = "Identity" ->
           [query |-> <<>>, params |-> params,
            err |-> <<"identity expression not supported for building queries">>,
            idents |-> <<>>]
      [] OTHER ->
           [query |-> <<>>, params |-> params,
            err |-> <<"custom expressions not supported by query filter builder">>,
            idents |-> <<>>]

\* BuildQuery(expression): q is written only when there is no error
BuildQuery(e) ==
    LET b == builderEvaluate(e, 0, NoValues)
    IN  [query |-> IF b.err = NoErr
                   THEN Set(b.params, QueryKeyFilterExpression, b.query)
                   ELSE b.params,
         err |-> b.err, idents |-> b.idents]

----------------------------------------------------------------------------
(* The expression tree in memory.  A heap is a sequence of objects and an  *)
(* address is an index into it; And, Or and Not objects hold the addresses  *)
(* of their operands.                                                      *)

RECURSIVE store(_, _)
\* the tree e laid out in the heap: [heap, addr]
store(heap, e) ==
    CASE e.kind \in {"And", "Or"} ->
           LET l == store(heap, e.Left)
               r == store(l.heap, e.Right)
           IN  [heap |-> Append(r.heap, [kind |-> e.kind, Left |-> l.addr,
                                         Right |-> r.addr]),
                addr |-> Len(r.heap) + 1]
      [] e.kind = "Not" ->
           LET v == store(heap, e.Value)
           IN  [heap |-> Append(v.heap, [kind |-> "Not", Value |-> v.addr]),
                addr |-> Len(v.heap) + 1]
      [] OTHER -> [heap |-> Append(heap, e), addr |-> Len(heap) + 1]

RECURSIVE load(_, _)
\* the tree that stands at addr
load(heap, addr) ==
    CASE heap[addr].kind = "And" ->
           AndFilter(load(heap, heap[addr].Left), load(heap, heap[addr].Right))
      [] heap[addr].kind = "Or" ->
           OrFilter(load(heap, heap[addr].Left), load(heap, heap[addr].Right))
      [] heap[addr].kind = "Not" -> NotFilter(load(heap, heap[addr].Value))
      [] OTHER -> heap[addr]

\* mutant: the evaluator is handed the Filter of the tree itself
filterArgumentShared(heap, addr) == [heap |-> heap, arg |-> addr]

\* Filter.ApplyFilterEvaluator: the receiver c is a copy of the Filter and
\* the evaluator is handed &c
filterArgument(heap, addr) ==
    [heap |-> Append(heap, heap[addr]), arg |-> Len(heap) + 1]

\* what the EvaluateFilter method of an evaluator leaves in the Filter it
\* is handed: the serializers only read it, the writing evaluator sets its
\* value
evaluatorWrite(evaluator, filter) ==
    IF evaluator = "writer" THEN [filter EXCEPT !.Value = "42"] ELSE filter

RECURSIVE evaluateOnHeap(_, _, _)
\* query.EvaluateFilter(evaluator, the expression at addr) for an evaluator
\* that evaluates both operands of And/Or and the operand of Not, as the
\* serializers do: the heap afterwards
evaluateOnHeap(heap, addr, evaluator) ==
    CASE heap[addr].kind = "Filter" ->
           LET a == filterArgument(heap, addr)
           IN  [a.heap EXCEPT ![a.arg] = evaluatorWrite(evaluator, @)]
      [] heap[addr].kind \in {"And", "Or"} ->
           evaluateOnHeap(evaluateOnHeap(heap, heap[addr].Left, evaluator),
                          heap[addr].Right, evaluator)
      [] heap[addr].kind = "Not" ->
           evaluateOnHeap(heap, heap[addr].Value, evaluator)
      [] OTHER -> heap

\* the tree e as it stands in memory after the evaluator has run on it
treeAfter(e, evaluator) ==
    LET s == store(<<>>, e)
    IN  load(evaluateOnHeap(s.heap, s.addr, evaluator), s.addr)

----------------------------------------------------------------------------
(* Transformers, package filter.                                           *)

\* A Transformer is described by the filter names it rejects and the
\* filter names whose value it rewrites; every other filter is returned
\* as it is.

\* PassthroughTransformer
PassthroughTransformer == [rejects |-> {}, rewrites |-> {}]

\* Transformer.TransformCriteria: [expr, err]
TransformCriteria(t, c) ==
    IF c.Name \in t.rejects
    THEN [expr |-> NilExpr, err |-> <<"transformer error">>]
    ELSE IF c.Name \in t.rewrites
    THEN [expr |-> [c EXCEPT !.Value = "42"], err |-> NoErr]
    ELSE [expr |-> c, err |-> NoErr]

\* A map[string]Transformer is a function from the registered names to
\* transformers.

\* TransformerMux.TransformCriteria (the map form): [expr, err]
TransformerMux_TransformCriteria(m, c) ==
    IF c.Name \notin DOMAIN m
    THEN TransformCriteria(PassthroughTransformer, c)
    ELSE TransformCriteria(m[c.Name], c)

\* TransformerMux.Strict
Strict(m) == [mux |-> m]

\* mutant: the strict mux falls back to the passthrough transformer
strictFallsBack(s, c) == TransformerMux_TransformCriteria(s.mux, c)

\* StrictTransformerMux.TransformCriteria: [expr, err]
StrictTransformerMux_TransformCriteria(s, c) ==
    IF c.Name \notin DOMAIN s.mux
    THEN [expr |-> NilExpr, err |-> <<"unknown filter: " \o c.Name>>]
    ELSE TransformCriteria(s.mux[c.Name], c)

\* the run-time panic of a method call on a nil interface value: the call
\* does not return
NilDereference ==
    [panic |-> "invalid memory address or nil pointer dereference"]

\* TransformerMux.TransformFilterToken (the struct form, t holds Strict and
\* Transformers): [expr, err], or the panic.  The lookup of an unregistered
\* name yields the nil Transformer, and when Strict is false the method is
\* called on it.
TransformerMux_TransformFilterToken(t, token) ==
    LET ok == token.Name \in DOMAIN t.Transformers
    IN  IF ~ok /\ t.Strict
        THEN [expr |-> NilExpr,
              err |-> <<"unknown token '" \o token.Name \o "'">>]
        ELSE IF ~ok THEN NilDereference
        ELSE TransformCriteria(t.Transformers[token.Name], token)

----------------------------------------------------------------------------
(* go/parser.ParseExpr on the texts ParseWithTransform hands it.  The      *)
(* texts hold letters, digits, blanks and the characters & | ! %; the      *)
(* letters spell no Go keyword, & and | occur in pairs only, and a word    *)
(* that starts with a digit holds digits only.                             *)

Letters == {"a", "d", "n", "o", "p", "r", "s", "t",
            "A", "D", "N", "O", "P", "R", "S", "T"}

Digits == {"0", "1", "2", "3", "4", "5", "6", "7"}

RECURSIVE ReplaceFrom(_, _, _, _)
\* strings.ReplaceAll on s from index i on: the non-overlapping
\* occurrences of old, left to right
ReplaceFrom(s, i, old, new) ==
    IF i > Len(s) THEN <<>>
    ELSE IF i + Len(old) - 1 <= Len(s) /\ SubSeq(s, i, i + Len(old) - 1) = old
    THEN new \o ReplaceFrom(s, i + Len(old), old, new)
    ELSE <<s[i]>> \o ReplaceFrom(s, i + 1, old, new)

\* strings.ReplaceAll
ReplaceAll(s, old, new) == ReplaceFrom(s, 1, old, new)

RECURSIVE WordEnd(_, _)
\* the index after the run of letters and digits that starts at i
WordEnd(s, i) ==
    IF i <= Len(s) /\ s[i] \in Letters \cup Digits
    THEN WordEnd(s, i + 1) ELSE i

RECURSIVE GoScan(_, _)
\* go/scanner: the tokens of s from index i on
GoScan(s, i) ==
    IF i > Len(s) THEN <<>>
    ELSE IF s[i] = " " THEN GoScan(s, i + 1)
    ELSE IF s[i] \in Letters
    THEN <<[tok |-> "IDENT", lit |-> SubSeq(s, i, WordEnd(s, i) - 1)]>>
         \o GoScan(s, WordEnd(s, i))
    ELSE IF s[i] \in Digits
    THEN LET lit == SubSeq(s, i, WordEnd(s, i) - 1)
         IN  <<[tok |-> IF \A k \in 1..Len(lit) : lit[k] \in Digits
                        THEN "INT" ELSE "ILLEGAL",
                lit |-> lit]>>
             \o GoScan(s, WordEnd(s, i))
    ELSE IF s[i] = "!" THEN <<[tok |-> "!", lit |-> <<>>]>> \o GoScan(s, i + 1)
    ELSE IF s[i] = "%" THEN <<[tok |-> "%", lit |-> <<>>]>> \o GoScan(s, i + 1)
    ELSE IF i < Len(s) /\ s[i] = "&" /\ s[i + 1] = "&"
    THEN <<[tok |-> "&&", lit |-> <<>>]>> \o GoScan(s, i + 2)
    ELSE IF i < Len(s) /\ s[i] = "|" /\ s[i + 1] = "|"
    THEN <<[tok |-> "||", lit |-> <<>>]>> \o GoScan(s, i + 2)
    ELSE <<[tok |-> "ILLEGAL", lit |-> <<s[i]>>]>> \o GoScan(s, i + 1)

\* token.Token.Precedence: 0 for what is no binary operator
GoPrecedence(tok) ==
    CASE tok = "||" -> 1
      [] tok = "&&" -> 2
      [] tok = "%" -> 5
      [] OTHER -> 0

\* the token at index i, EOF past the end
GoTok(toks, i) == IF i > Len(toks) THEN "EOF" ELSE toks[i].tok

\* the nil ast.Node
NilGoNode == [kind |-> "nil"]

RECURSIVE GoParseUnary(_, _)
RECURSIVE GoParseBinary(_, _, _)
RECURSIVE GoParseBinaryLoop(_, _, _, _)

\* parser.parseUnaryExpr: [node, i, bad]
GoParseUnary(toks, i) ==
    CASE GoTok(toks, i) = "!" ->
           LET x == GoParseUnary(toks, i + 1)
           IN  [node |-> [kind |-> "UnaryExpr", Op |-> "!", X |-> x.node],
                i |-> x.i, bad |-> x.bad]
      [] GoTok(toks, i) = "IDENT" ->
           [node |-> [kind |-> "Ident", Name |-> toks[i].lit], i |-> i + 1,
            bad |-> FALSE]
      [] GoTok(toks, i) = "INT" ->
           [node |-> [kind |-> "BasicLit", Value |-> toks[i].lit],
            i |-> i + 1, bad |-> FALSE]
      [] OTHER -> [node |-> NilGoNode, i |-> i, bad |-> TRUE]

\* the loop of parser.parseBinaryExpr with the left operand x
GoParseBinaryLoop(toks, i, x, prec1) ==
    IF GoPrecedence(GoTok(toks, i)) < prec1
    THEN [node |-> x, i |-> i, bad |-> FALSE]
    ELSE LET y == GoParseBinary(toks, i + 1,
                                GoPrecedence(GoTok(toks, i)) + 1)
         IN  IF y.bad THEN y
             ELSE GoParseBinaryLoop(toks, y.i,
                     [kind |-> "BinaryExpr", Op |-> toks[i].tok, X |-> x,
                      Y |-> y.node],
                     prec1)

\* parser.parseBinaryExpr(nil, prec1)
GoParseBinary(toks, i, prec1) ==
    LET x == GoParseUnary(toks, i)
    IN  IF x.bad THEN x ELSE GoParseBinaryLoop(toks, x.i, x.node, prec1)

\* parser.ParseExpr: [node, err]; the whole text must be one expression
ParseExpr(text) ==
    LET toks == GoScan(text, 1)
        e == GoParseBinary(toks, 1, 1)
    IN  IF \/ \E k \in 1..Len(toks) : toks[k].tok = "ILLEGAL"
           \/ e.bad
           \/ e.i <= Len(toks)
        THEN [node |-> NilGoNode, err |-> <<"syntax error">>]
        ELSE [node |-> e.node, err |-> NoErr]

----------------------------------------------------------------------------
(* ParseWithTransform, parser.go.                                          *)

\* the failed rules of visitIdent's validation, in the order of the rules
identErrors(criteria) ==
    (IF criteria.Name = "" THEN <<"filter[%s][name] is required">> ELSE <<>>)
    \o (IF criteria.Value = "" THEN <<"filter[%s][value] is required">>
        ELSE <<>>)
    \o (IF criteria.Condition = "" THEN <<"filter[%s][condition] is required">>
        ELSE <<>>)

\* one invocation of the transformer: the criteria handed to it and what
\* it returned
Invocation(criteria, result) ==
    [method |-> "TransformCriteria", arg |-> criteria, result |-> result]

\* mutant: the transformer is invoked whether or not the group is valid
visitIdentAlwaysTransforms(ident, query, t) ==
    LET criteria == filterGet(query, ident.Name)
        err == identErrors(criteria)
        result == TransformCriteria(t, criteria)
    IN  [expr |-> IF err = NoErr THEN result.expr ELSE NilExpr,
         err |-> IF err = NoErr THEN result.err ELSE err,
         calls |-> <<Invocation(criteria, result)>>]

\* urlQueryParser.visitIdent on a parser whose expr and err are unset:
\* [expr, err] and the invocations of the transformer
visitIdent(ident, query, t) ==
    LET criteria == filterGet(query, ident.Name)
        err == identErrors(criteria)
        result == TransformCriteria(t, criteria)
    IN  IF err = NoErr
        THEN [expr |-> result.expr, err |-> result.err,
              calls |-> <<Invocation(criteria, result)>>]
        ELSE [expr |-> NilExpr, err |-> err, calls |-> <<>>]

\* mutant: a binary node hands on the error of its left operand only
binaryErrLeftOnly(left, right) == left.err

\* what a binary node hands on as its error
binaryErr(left, right) == Join(left.err, right.err)

\* what a NOT node hands on as its error
unaryErr(operand) == operand.err

RECURSIVE Visit(_, _, _)
\* urlQueryParser.Visit on a parser whose expr and err are unset:
\* the parser's [expr, err] afterwards, and the invocations of the
\* transformer in the order they were made
Visit(n, query, t) ==
    CASE n.kind = "BinaryExpr" ->
           IF n.Op \in {"&&", "||"}
           THEN LET left == Visit(n.X, query, t)
                    right == Visit(n.Y, query, t)
                IN  [expr |-> IF n.Op = "&&"
                              THEN AndFilter(left.expr, right.expr)
                              ELSE OrFilter(left.expr, right.expr),
                     err |-> binaryErr(left, right),
                     calls |-> left.calls \o right.calls]
           ELSE [expr |-> NilExpr, err |-> <<"unsupported operator">>,
                 calls |-> <<>>]
      [] n.kind = "UnaryExpr" ->
           IF n.Op = "!"
           THEN LET operand == Visit(n.X, query, t)
                IN  [expr |-> NotFilter(operand.expr),
                     err |-> unaryErr(operand),
                     calls |-> operand.calls]
           ELSE [expr |-> NilExpr, err |-> <<"unsupported operator">>,
                 calls |-> <<>>]
      [] n.kind = "Ident" -> visitIdent(n, query, t)
      [] OTHER -> [expr |-> NilExpr, err |-> NoErr, calls |-> <<>>]

\* parseURLQuery: ast.Walk calls Visit on the root, and Visit never asks
\* the walk to go on
parseURLQuery(n, query, t) == Visit(n, query, t)

ErrEmptyQuery == <<"empty query">>

\* the text ParseWithTransform hands to parser.ParseExpr (lines 50-58)
goExpression(query) ==
    ReplaceAll(
        ReplaceAll(
            ReplaceAll(ToLower(GetText(query, QueryKeyFilterExpression)),
                       OperationAND, <<"&", "&">>),
            OperationOR, <<"|", "|">>),
        OperationNOT, <<"!">>)

\* mutant: the tree built so far is returned together with the error
parseResultKeepsExpr(result) ==
    IF result.err # NoErr
    THEN [expr |-> result.expr,
          err |-> <<"url query parse failed">> \o result.err,
          calls |-> result.calls]
    ELSE [expr |-> result.expr, err |-> NoErr, calls |-> result.calls]

\* what ParseWithTransform returns when the walk has ended with result
parseResult(result) ==
    IF result.err # NoErr
    THEN [expr |-> NilExpr,
          err |-> <<"url query parse failed">> \o result.err,
          calls |-> result.calls]
    ELSE [expr |-> result.expr, err |-> NoErr, calls |-> result.calls]

\* ParseWithTransform(query, transformer): [expr, err], and the invocations
\* of the transformer it made
ParseWithTransform(query, t) ==
    IF Cardinality(DOMAIN query) = 0
    THEN [expr |-> NilExpr, err |-> ErrEmptyQuery, calls |-> <<>>]
    ELSE LET node == ParseExpr(goExpression(query))
         IN  IF node.err # NoErr
             THEN [expr |-> NilExpr,
                   err |-> <<"invalid query">> \o node.err,
                   calls |-> <<>>]
             ELSE parseResult(parseURLQuery(node.node, query, t))

\* Parser{Transformer: t}
Parser(t) == [Transformer |-> t]

\* Parser.ParseFilter(r), where query is r.URL.Query(): the receiver is not
\* named and its Transformer field is not read
ParseFilter(parser, query) ==
    ParseWithTransform(query, PassthroughTransformer)

----------------------------------------------------------------------------
(* Token lists handed to build.                                            *)

wAND == <<"A", "N", "D">>
wOR == <<"O", "R">>
wNOT == <<"N", "O", "T">>
wp1 == <<"p", "1">>
wp2 == <<"p", "2">>
wp3 == <<"p", "3">>

\* keywords in mixed case, and variables that hold the letters of a keyword
wAnd == <<"A", "n", "d">>
woR == <<"o", "R">>
wnOt == <<"n", "O", "t">>
wands == <<"a", "n", "d", "s">>
wno == <<"n", "o">>

\* variable tokens
VarWords == {wp1, wp2, wp3}

\* the alphabet of the token lists drawn without a pattern
TokenWords == {wAND, OperationAND, wOR, wNOT, wp1, wp2}

RECURSIVE SeqsUpTo(_, _)
SeqsUpTo(S, n) ==
    IF n = 0 THEN {<<>>}
    ELSE LET shorter == SeqsUpTo(S, n - 1)
         IN  shorter \cup {Append(s, x) : s \in {t \in shorter : Len(t) = n - 1}, x \in S}

RECURSIVE Chain(_, _)
\* x1 op x2 op ... op xn for the sequence xs of operands
Chain(xs, w) ==
    IF Len(xs) = 1 THEN <<xs[1]>>
    ELSE Chain(SubSeq(xs, 1, Len(xs) - 1), w) \o <<w, xs[Len(xs)]>>

ChainLists ==
    {Chain(xs, w) : xs \in (SeqsUpTo({wp1, wp2}, MaxChain) \ {<<>>}),
                    w \in {wAND, wOR}}

PatternLists ==
    UNION {{<<x, wAND, y, z, wOR>>,
            <<wNOT, x, wOR, y, wAND>>,
            <<x, wOR, y, wAND, z>>,
            <<x, wAND, y, wOR, z>>,
            <<wNOT, x, wAND, wNOT, y, wOR, z>>,
            <<x, wOR, y, wAND, wNOT, z>>} : x \in VarWords, y \in VarWords, z \in VarWords}

\* token lists with keywords in mixed case and with near-keywords
SpellingLists ==
    {<<wp1, wAnd, wp2>>, <<wp1, woR, wp2>>, <<wnOt, wp1>>,
     <<wands, woR, wno>>, <<wno, wAnd, wnOt, wands>>}

TokenLists ==
    SeqsUpTo(TokenWords, MaxTokens) \cup ChainLists \cup PatternLists
    \cup SpellingLists

----------------------------------------------------------------------------
(* Expression trees handed to the serializers.                             *)

\* two atomic filters
FilterA == Filter("value", "eq", "5")
FilterB == Filter("size", "gt", "2")

Leaves == {FilterA, FilterB}

RECURSIVE TreesWith(_)
\* the trees with exactly n And/Or/Not nodes
TreesWith(n) ==
    IF n = 0 THEN Leaves
    ELSE {NotFilter(e) : e \in TreesWith(n - 1)}
         \cup UNION {{AndFilter(l, r) : l \in TreesWith(i),
                                        r \in TreesWith(n - 1 - i)}
                     : i \in 0..(n - 1)}
         \cup UNION {{OrFilter(l, r) : l \in TreesWith(i),
                                       r \in TreesWith(n - 1 - i)}
                     : i \in 0..(n - 1)}

Trees == UNION {TreesWith(n) : n \in 0..MaxOps}

\* the leaves of the trees that may hold what the serializers do not support
MixedLeaves == {FilterA, IdentityFilter, CustomFilter}

RECURSIVE MixedTreesWith(_)
\* the trees over MixedLeaves with exactly n And/Or/Not nodes
MixedTreesWith(n) ==
    IF n = 0 THEN MixedLeaves
    ELSE {NotFilter(e) : e \in MixedTreesWith(n - 1)}
         \cup UNION {{AndFilter(l, r) : l \in MixedTreesWith(i),
                                        r \in MixedTreesWith(n - 1 - i)}
                     : i \in 0..(n - 1)}
         \cup UNION {{OrFilter(l, r) : l \in MixedTreesWith(i),
                                       r \in MixedTreesWith(n - 1 - i)}
                     : i \in 0..(n - 1)}

MixedTrees == UNION {MixedTreesWith(n) : n \in 0..MaxMixedOps}

\* the trees handed to Generate calls that run side by side
ConcurrentTrees ==
    {FilterA,
     NotFilter(FilterB),
     AndFilter(FilterA, FilterB),
     OrFilter(FilterB, NotFilter(FilterA)),
     AndFilter(OrFilter(FilterA, FilterB), FilterA)}

\* trees with two different atomic leaves around a leaf that no serializer
\* supports
FailingTrees ==
    {AndFilter(FilterA, AndFilter(IdentityFilter, FilterB)),
     AndFilter(AndFilter(FilterA, IdentityFilter), FilterB),
     OrFilter(OrFilter(FilterA, CustomFilter), FilterB)}

\* the trees handed to the serializers
SerializedTrees == Trees \cup MixedTrees \cup FailingTrees

----------------------------------------------------------------------------
(* Parameter maps sent by clients.                                         *)

wor == <<"o", "r">>
wnot == <<"n", "o", "t">>
w1 == <<"1">>

\* the words of the q texts drawn without a pattern
QueryWords == {wp1, wp2, wAND, wor, wnot, w1}

RECURSIVE JoinWords(_)
\* strings.Join(ws, " ")
JoinWords(ws) ==
    IF Len(ws) = 0 THEN <<>>
    ELSE IF Len(ws) = 1 THEN ws[1]
    ELSE ws[1] \o <<" ">> \o JoinWords(Tail(ws))

QueryTexts ==
    {JoinWords(ws) : ws \in SeqsUpTo(QueryWords, MaxWords)}
    \cup {JoinWords(ws) : ws \in {<<wp1, wAND, wp2, wor, wnot, wp1>>,
                                  <<wnot, wp1, wAND, wnot, wp2>>,
                                  <<wp1, wor, wp2, wAND, w1>>,
                                  <<wp1, wor, wnot, wp2>>}}

\* a complete parameter group and groups with a field missing or empty
GroupsBoth == filterSet(filterSet(NoValues, wp1, FilterA), wp2, FilterB)
GroupsOnlyP1 == filterSet(NoValues, wp1, FilterA)
GroupsP1NoName ==
    [k \in DOMAIN GroupsBoth \ {FilterKey(wp1, "name")} |-> GroupsBoth[k]]
GroupsP2EmptyValue == Set(GroupsBoth, FilterKey(wp2, "value"), "")
GroupsP1NoCondition ==
    [k \in DOMAIN GroupsBoth \ {FilterKey(wp1, "condition")} |-> GroupsBoth[k]]

GroupMaps == {NoValues, GroupsBoth, GroupsOnlyP1, GroupsP1NoName,
              GroupsP2EmptyValue, GroupsP1NoCondition}

\* identifiers in several spellings: lower and upper case, and with the
\* letters of an operator word inside
wP1 == <<"P", "1">>
wport == <<"p", "o", "r", "t">>
wsand == <<"s", "a", "n", "d">>
wnots == <<"n", "o", "t", "s">>
wtop == <<"t", "o", "p">>

IdentWords == {wp1, wp2, wP1, wport, wsand, wnots, wtop}

\* a filter whose condition is none of the FilterCondition constants
FilterLike == Filter("value", "like", "5")

\* q is one identifier and its group is complete under that spelling
SingleMaps ==
    {Set(filterSet(NoValues, id, f), QueryKeyFilterExpression, id)
        : id \in IdentWords, f \in {FilterA, FilterB, FilterLike}}

\* the parameter maps: with or without the key q
ClientMaps ==
    GroupMaps
    \cup {Set(g, QueryKeyFilterExpression, text) : g \in GroupMaps,
                                                   text \in QueryTexts}
    \cup SingleMaps

\* the transformers handed to ParseWithTransform
Transformers == {PassthroughTransformer,
                 [rejects |-> {"size"}, rewrites |-> {}],
                 [rejects |-> {}, rewrites |-> {"value"}]}

\* the evaluators handed to query.EvaluateFilter, each given by the set
\* of its methods that return an error
Evaluators ==
    {{}, EvaluatorMethods} \cup {{method} : method \in EvaluatorMethods}

\* the names a mux may have a transformer registered under
MuxNames == {"value", "size"}

\* the registries handed to the muxes: every map from some of the names
\* to transformers
Muxes == UNION {[names -> Transformers] : names \in SUBSET MuxNames}

\* a filter under a name that no mux has registered
FilterC == Filter("age", "lt", "9")

\* the filters handed to the muxes
Criteria == {FilterA, FilterB, FilterC}

----------------------------------------------------------------------------
(* State machine.                                                          *)

Init ==
    /\ op = "init"
    /\ tokens = <<>>
    /\ ast = [node |-> NilNode, err |-> NoErr]
    /\ expr = NilExpr
    /\ values = <<>>
    /\ serr = NoErr
    /\ assigned = <<>>
    /\ origin = "none"
    /\ transformer = PassthroughTransformer
    /\ parsed = [expr |-> NilExpr, err |-> NoErr]
    /\ called = <<>>
    /\ gen = NoCalls
    /\ after = NilExpr

\* a call astBuilder{}.build(toks): the builder is a fresh zero value
Build ==
    /\ op = "init"
    /\ \E toks \in TokenLists :
          LET r == build(toks)
          IN  /\ op' = "build"
              /\ tokens' = toks
              /\ ast' = [node |-> r.node, err |-> r.err]
    /\ UNCHANGED <<expr, values, serr, assigned, origin, transformer, parsed,
                   called, gen, after>>

\* a client's request arrives with its parameter map
Request ==
    /\ op = "init"
    /\ \E m \in ClientMaps : values' = m
    /\ op' = "Request"
    /\ origin' = "client"
    /\ UNCHANGED <<tokens, ast, expr, serr, assigned, transformer, parsed,
                   called, gen, after>>

\* a call Generate(e, q) with an empty q
GenerateCall ==
    /\ op = "init"
    /\ \E e \in SerializedTrees :
          LET r == Generate(e, NoValues)
          IN  /\ expr' = e
              /\ after' = treeAfter(e, "Generate")
              /\ values' = r.query
              /\ serr' = r.err
              /\ assigned' = r.idents
    /\ op' = "Generate"
    /\ origin' = "Generate"
    /\ UNCHANGED <<tokens, ast, transformer, parsed, called, gen>>

\* a call BuildQuery(e)
BuildQueryCall ==
    /\ op = "init"
    /\ \E e \in SerializedTrees :
          LET r == BuildQuery(e)
          IN  /\ expr' = e
              /\ after' = treeAfter(e, "BuildQuery")
              /\ values' = r.query
              /\ serr' = r.err
              /\ assigned' = r.idents
    /\ op' = "BuildQuery"
    /\ origin' = "BuildQuery"
    /\ UNCHANGED <<tokens, ast, transformer, parsed, called, gen>>

\* a call ParseWithTransform(values, t) on a client's parameter map
ParseWithTransformCall ==
    /\ op = "Request"
    /\ \E t \in Transformers :
          LET r == ParseWithTransform(values, t)
          IN  /\ transformer' = t
              /\ parsed' = [expr |-> r.expr, err |-> r.err]
              /\ called' = r.calls
    /\ op' = "ParseWithTransform"
    /\ UNCHANGED <<tokens, ast, expr, values, serr, assigned, origin, gen,
                   after>>

\* a call Parse(values) on what a serializer produced (parser.go, line 40)
\* Parser{Transformer: t}.ParseFilter(r) on the request's query parameters
ParseFilterCall ==
    /\ op = "Request"
    /\ \E t \in Transformers :
          LET r == ParseFilter(Parser(t), values)
          IN  /\ transformer' = t
              /\ parsed' = [expr |-> r.expr, err |-> r.err]
              /\ called' = r.calls
    /\ op' = "ParseFilter"
    /\ UNCHANGED <<tokens, ast, expr, values, serr, assigned, origin, gen,
                   after>>

ParseCall ==
    /\ op \in {"Generate", "BuildQuery"}
    /\ LET r == ParseWithTransform(values, PassthroughTransformer)
       IN  /\ parsed' = [expr |-> r.expr, err |-> r.err]
           /\ called' = r.calls
    /\ op' = "Parse"
    /\ UNCHANGED <<tokens, ast, expr, values, serr, assigned, origin,
                   transformer, gen, after>>

\* a call m.TransformCriteria(&c) on a map-form TransformerMux m
TransformCriteriaCall ==
    /\ op = "init"
    /\ \E m \in Muxes, c \in Criteria :
          /\ transformer' = m
          /\ expr' = c
          /\ parsed' = TransformerMux_TransformCriteria(m, c)
    /\ op' = "TransformerMux.TransformCriteria"
    /\ UNCHANGED <<tokens, ast, values, serr, assigned, origin, called, gen,
                   after>>

\* a call m.Strict().TransformCriteria(&c)
StrictTransformCriteriaCall ==
    /\ op = "init"
    /\ \E m \in Muxes, c \in Criteria :
          /\ transformer' = Strict(m)
          /\ expr' = c
          /\ parsed' = StrictTransformerMux_TransformCriteria(Strict(m), c)
    /\ op' = "StrictTransformerMux.TransformCriteria"
    /\ UNCHANGED <<tokens, ast, values, serr, assigned, origin, called, gen,
                   after>>

\* a call t.TransformFilterToken(&c) on a struct-form TransformerMux t
TransformFilterTokenCall ==
    /\ op = "init"
    /\ \E m \in Muxes, strict \in BOOLEAN, c \in Criteria :
          LET t == [Strict |-> strict, Transformers |-> m]
          IN  /\ transformer' = t
              /\ expr' = c
              /\ parsed' = TransformerMux_TransformFilterToken(t, c)
    /\ op' = "TransformerMux.TransformFilterToken"
    /\ UNCHANGED <<tokens, ast, values, serr, assigned, origin, called, gen,
                   after>>

\* a call query.EvaluateFilter(e, x) with an evaluator e that does nothing
\* but return
EvaluateFilterCall ==
    /\ op = "init"
    /\ \E failing \in Evaluators, x \in MixedTrees :
          LET r == EvaluateFilter(failing, x)
          IN  /\ expr' = x
              /\ serr' = r.err
              /\ called' = r.called
    /\ op' = "EvaluateFilter"
    /\ UNCHANGED <<tokens, ast, values, assigned, origin, transformer, parsed,
                   gen, after>>

\* two goroutines call Generate, each with a tree and an empty url.Values
\* of its own
GenerateBoth ==
    /\ op = "init"
    /\ \E e1 \in ConcurrentTrees, e2 \in ConcurrentTrees :
          gen' = [trees |-> <<e1, e2>>, visited |-> <<0, 0>>,
                  counters |-> <<>>, query |-> <<NoValues, NoValues>>,
                  idents |-> <<<<>>, <<>>>>, returned |-> <<FALSE, FALSE>>]
    /\ op' = "GenerateBoth"
    /\ UNCHANGED <<tokens, ast, expr, values, serr, assigned, origin,
                   transformer, parsed, called, after>>

\* one of the two calls visits its next leaf
GenerateVisit ==
    /\ op = "GenerateBoth"
    /\ \E call \in {1, 2} :
          /\ gen.visited[call]
               < Len(leafVisits(gen.trees[call], <<>>, <<>>))
          /\ gen' = generatorVisit(gen, call)
    /\ UNCHANGED <<op, tokens, ast, expr, values, serr, assigned, origin,
                   transformer, parsed, called, after>>

\* one of the two calls has visited all its leaves, sets q and returns
GenerateReturn ==
    /\ op = "GenerateBoth"
    /\ \E call \in {1, 2} :
          /\ gen.visited[call]
               = Len(leafVisits(gen.trees[call], <<>>, <<>>))
          /\ ~gen.returned[call]
          /\ gen' = generatorReturn(gen, call)
    /\ UNCHANGED <<op, tokens, ast, expr, values, serr, assigned, origin,
                   transformer, parsed, called, after>>

\* a call query.EvaluateFilter(e, x) with an evaluator e that writes to the
\* Filter it is handed
WritingEvaluatorCall ==
    /\ op = "init"
    /\ \E x \in MixedTrees :
          /\ expr' = x
          /\ after' = treeAfter(x, "writer")
    /\ op' = "WritingEvaluator"
    /\ UNCHANGED <<tokens, ast, values, serr, assigned, origin, transformer,
                   parsed, called, gen>>

\* the call has returned and its results are dropped
Return ==
    /\ op # "init"
    /\ op' = "init"
    /\ tokens' = <<>>
    /\ ast' = [node |-> NilNode, err |-> NoErr]
    /\ expr' = NilExpr
    /\ values' = <<>>
    /\ serr' = NoErr
    /\ assigned' = <<>>
    /\ origin' = "none"
    /\ transformer' = PassthroughTransformer
    /\ parsed' = [expr |-> NilExpr, err |-> NoErr]
    /\ called' = <<>>
    /\ gen' = NoCalls
    /\ after' = NilExpr

Next ==
    \/ Build
    \/ Request
    \/ GenerateCall
    \/ BuildQueryCall
    \/ ParseWithTransformCall
    \/ ParseCall
    \/ TransformCriteriaCall
    \/ StrictTransformCriteriaCall
    \/ TransformFilterTokenCall
    \/ EvaluateFilterCall
    \/ GenerateBoth
    \/ GenerateVisit
    \/ GenerateReturn
    \/ WritingEvaluatorCall
    \/ ParseFilterCall
    \/ Return

Spec == Init /\ [][Next]_vars

\* the parser on the parameter maps of clients
NextParse ==
    \/ Request
    \/ ParseWithTransformCall
    \/ ParseFilterCall
    \/ Return

SpecParse == Init /\ [][NextParse]_vars

\* the serializers, and the parser on what they produce
NextCodec == GenerateCall \/ BuildQueryCall \/ ParseCall \/ Return

SpecCodec == Init /\ [][NextCodec]_vars

\* the transformer muxes called on their own
NextMux ==
    \/ TransformCriteriaCall
    \/ StrictTransformCriteriaCall
    \/ TransformFilterTokenCall
    \/ Return

\* the evaluators that walk a tree: the serializers and a writing evaluator
NextFrame ==
    \/ GenerateCall
    \/ BuildQueryCall
    \/ WritingEvaluatorCall
    \/ Return

SpecFrame == Init /\ [][NextFrame]_vars

\* two Generate calls side by side
NextConcurrent == GenerateBoth \/ GenerateVisit \/ GenerateReturn \/ Return

SpecConcurrent == Init /\ [][NextConcurrent]_vars

\* query.EvaluateFilter called on its own
NextDispatch == EvaluateFilterCall \/ Return

SpecDispatch == Init /\ [][NextDispatch]_vars

SpecMux == Init /\ [][NextMux]_vars

\* the evaluations of And/Or nodes: the serializers on trees, the parser
\* on the parameter maps of clients
NextEvaluate ==
    \/ GenerateCall
    \/ BuildQueryCall
    \/ Request
    \/ ParseWithTransformCall
    \/ Return

SpecEvaluate == Init /\ [][NextEvaluate]_vars

\* the calls of the AST builder alone
NextBuild == Build \/ Return

SpecBuild == Init /\ [][NextBuild]_vars

----------------------------------------------------------------------------
(* Properties of the AST builder.                                          *)

\* the symbol of the i-th token handed to build
Sym(i) == tokenFromString(tokens[i]).symbol

\* the leaf node of the i-th token
LeafAt(i) == Node(tokenFromString(tokens[i]), NilNode, NilNode)

\* the node of the operator at position i over the operands l and r
OpAt(i, l, r) == Node(tokenFromString(tokens[i]), l, r)

\* build returned this node and no error
Built(n) == ast = [node |-> n, err |-> NoErr]

RECURSIVE Nodes(_)
\* the nodes of a tree
Nodes(n) ==
    IF n = NilNode THEN {}
    ELSE {n} \cup Nodes(n.left) \cup Nodes(n.right)

\* the symbols of the tokens are those of syms, in order
Shape(syms) ==
    /\ Len(tokens) = Len(syms)
    /\ \A i \in 1..Len(syms) : Sym(i) = syms[i]

\* C1: AND binds tighter than OR whatever their order: build on
\* [x, OR, y, AND, z] returns Or(x, And(y, z)) and build on
\* [x, AND, y, OR, z] returns Or(And(x, y), z), for all variables x, y, z.
C1_AndBindsTighterThanOr ==
    op = "build" =>
      /\ Shape(<<symbolVAR, symbolOR, symbolVAR, symbolAND, symbolVAR>>)
            => Built(OpAt(2, LeafAt(1), OpAt(4, LeafAt(3), LeafAt(5))))
      /\ Shape(<<symbolVAR, symbolAND, symbolVAR, symbolOR, symbolVAR>>)
            => Built(OpAt(4, OpAt(2, LeafAt(1), LeafAt(3)), LeafAt(5)))

C1_Witness ==
    /\ op = "build"
    /\ tokens = <<wp1, wOR, wp2, wAND, wp3>>
    /\ ast.err = NoErr
    /\ ast.node.token.symbol = symbolOR
    /\ ast.node.right.token.symbol = symbolAND

\* a NOT node made by primary: it has a single operand
IsPrefixNot(n) == n.token.symbol = symbolNOT /\ n.right = NilNode

\* C2: a prefix NOT takes only the primary that follows it: build on
\* [NOT, x, AND, NOT, y, OR, z] returns Or(And(Not(x), Not(y)), z), build on
\* [x, OR, y, AND, NOT, z] returns Or(x, And(y, Not(z))), and in every tree
\* build returns the operand of a prefix NOT is a variable leaf or another
\* prefix NOT, never an AND or OR expression.
C2_NotTakesOnlyNextPrimary ==
    op = "build" =>
      /\ Shape(<<symbolNOT, symbolVAR, symbolAND, symbolNOT, symbolVAR,
                 symbolOR, symbolVAR>>)
            => Built(OpAt(6, OpAt(3, OpAt(1, LeafAt(2), NilNode),
                                     OpAt(4, LeafAt(5), NilNode)),
                             LeafAt(7)))
      /\ Shape(<<symbolVAR, symbolOR, symbolVAR, symbolAND, symbolNOT,
                 symbolVAR>>)
            => Built(OpAt(2, LeafAt(1),
                             OpAt(4, LeafAt(3), OpAt(5, LeafAt(6), NilNode))))
      /\ ast.err = NoErr =>
            \A n \in Nodes(ast.node) :
                IsPrefixNot(n) =>
                    /\ n.left # NilNode
                    /\ \/ n.left.token.symbol = symbolVAR
                       \/ IsPrefixNot(n.left)

C2_Witness ==
    /\ op = "build"
    /\ tokens = <<wNOT, wp1, wAND, wNOT, wp2, wOR, wp3>>
    /\ ast.err = NoErr
    /\ ast.node.token.symbol = symbolOR
    /\ IsPrefixNot(ast.node.left.right)
    /\ ast.node.left.right.left.token.value = wp2

\* the token list is x1 op x2 op ... op xn with one binary operator op
IsChain(sym) ==
    /\ Len(tokens) % 2 = 1
    /\ \A i \in 1..Len(tokens) :
          Sym(i) = (IF i % 2 = 1 THEN symbolVAR ELSE sym)

RECURSIVE LeftNested(_)
\* the left-nested tree over the first k tokens of a chain (k odd)
LeftNested(k) ==
    IF k = 1 THEN LeafAt(1)
    ELSE OpAt(k - 1, LeftNested(k - 2), LeafAt(k))

\* C3: AND and OR are left-associative: build on a chain
\* x1 op x2 op ... op xn returns op(...op(op(x1, x2), x3)..., xn), and in
\* every tree build returns no AND node has an AND right child and no OR
\* node has an OR right child.
C3_LeftAssociative ==
    op = "build" =>
      /\ (IsChain(symbolAND) \/ IsChain(symbolOR))
            => Built(LeftNested(Len(tokens)))
      /\ ast.err = NoErr =>
            \A n \in Nodes(ast.node) :
                (n.token.symbol \in {symbolAND, symbolOR} /\ n.right # NilNode)
                    => n.right.token.symbol # n.token.symbol

C3_Witness ==
    /\ op = "build"
    /\ tokens = <<wp1, wAND, wp2, wAND, wp1, wAND, wp2>>
    /\ ast.err = NoErr
    /\ ast.node.left.left.token.symbol = symbolAND
    /\ ast.node.right.token.symbol = symbolVAR

\* C7: build returns an error and no node for a token list that is empty,
\* that starts with AND or OR, or that holds operator tokens only.
C7_MalformedListsFail ==
    (/\ op = "build"
     /\ \/ tokens = <<>>
        \/ Sym(1) \in {symbolAND, symbolOR}
        \/ \A i \in 1..Len(tokens) : isOperation(Sym(i)))
    => (ast.err # NoErr /\ ast.node = NilNode)

C7_Witness ==
    /\ op = "build"
    /\ tokens = <<wNOT, wNOT>>
    /\ ast.err # NoErr
    /\ ast.node = NilNode

----------------------------------------------------------------------------
(* Properties of the serializers and of the parser.                        *)

RECURSIVE LeavesOf(_)
\* the atomic filters of a tree, left to right
LeavesOf(e) ==
    CASE e.kind = "Filter" -> <<e>>
      [] e.kind \in {"And", "Or"} -> LeavesOf(e.Left) \o LeavesOf(e.Right)
      [] e.kind = "Not" -> LeavesOf(e.Value)
      [] OTHER -> <<>>

RECURSIVE Expressible(_, _)
\* the tree has a shape the q text can express without parentheses under
\* the precedences NOT > AND > OR and left associativity; level is the
\* lowest precedence allowed at the root (1: any, 2: no Or, 3: no And)
Expressible(e, level) ==
    CASE e.kind = "Or" ->
           level <= 1 /\ Expressible(e.Left, 1) /\ Expressible(e.Right, 2)
      [] e.kind = "And" ->
           level <= 2 /\ Expressible(e.Left, 2) /\ Expressible(e.Right, 3)
      [] e.kind = "Not" -> Expressible(e.Value, 3)
      [] OTHER -> e.kind = "Filter"

\* C4: round trip: parsing the parameters a serializer produced for a tree
\* of Atomic/And/Or/Not nodes succeeds and yields a tree whose String()
\* equals the String() of the tree that was serialized.  The q text has no
\* parentheses; the statement is taken here on the trees whose shape the
\* q text can express, which are among the trees the claim is about.
C4_RoundTrip ==
    (op = "Parse" /\ Expressible(expr, 1)) =>
      /\ parsed.err = NoErr
      /\ parsed.expr # NilExpr
      /\ String(parsed.expr) = String(expr)

\* C5: within one serialize call the leaves get pairwise distinct
\* identifiers, and the parameter map holds under each leaf's identifier
\* the name, condition and value of that leaf.
C5_DistinctIdentifiers ==
    op \in {"Generate", "BuildQuery"} =>
      /\ Len(assigned) = Len(LeavesOf(expr))
      /\ \A i, j \in 1..Len(assigned) : i # j => assigned[i] # assigned[j]
      /\ \A i \in 1..Len(assigned) :
            filterGet(values, assigned[i]) = LeavesOf(expr)[i]

\* C6: parsing a parameter map that has no q, the empty map included,
\* returns the identity expression, whose String() is "TRUE", and no error.
C6_NoQueryIsIdentity ==
    (op = "ParseWithTransform" /\ QueryKeyFilterExpression \notin DOMAIN values)
    => /\ parsed.err = NoErr
       /\ parsed.expr = IdentityFilter
       /\ String(parsed.expr) = "TRUE"

RECURSIVE LeafIdents(_)
\* the identifiers that become leaves of the parsed expression: those the
\* walk reaches through &&, || and !
LeafIdents(n) ==
    CASE n.kind = "BinaryExpr" ->
           IF n.Op \in {"&&", "||"}
           THEN LeafIdents(n.X) \cup LeafIdents(n.Y) ELSE {}
      [] n.kind = "UnaryExpr" -> LeafIdents(n.X)
      [] n.kind = "Ident" -> {n.Name}
      [] OTHER -> {}

\* the Go expression of the parameter map that is being parsed
GoExpr == ParseExpr(goExpression(values))

\* the parameter group of ident lacks a name, a condition or a value
Incomplete(ident) ==
    \E field \in {"name", "condition", "value"} :
        Get(values, FilterKey(ident, field)) = ""

\* C8: if an identifier that becomes a leaf of the parsed expression has a
\* missing or empty name, condition or value, the parse returns an error,
\* wherever the identifier stands in the expression.
C8_IncompleteGroupFails ==
    (/\ op = "ParseWithTransform"
     /\ GoExpr.err = NoErr
     /\ \E ident \in LeafIdents(GoExpr.node) : Incomplete(ident))
    => parsed.err # NoErr

C8_Witness ==
    /\ op = "ParseWithTransform"
    /\ values = Set(GroupsP2EmptyValue, QueryKeyFilterExpression,
                    JoinWords(<<wp1, wor, wnot, wp2>>))
    /\ transformer = PassthroughTransformer
    /\ ~Incomplete(wp1)
    /\ Incomplete(wp2)
    /\ parsed.err # NoErr

\* C9: if the Transformer returns an error for a leaf, ParseWithTransform
\* returns an error and a nil expression, also when the other leaves were
\* resolved and transformed.
C9_TransformErrorAborts ==
    (/\ op = "ParseWithTransform"
     /\ GoExpr.err = NoErr
     /\ \E ident \in LeafIdents(GoExpr.node) :
           /\ ~Incomplete(ident)
           /\ TransformCriteria(transformer, filterGet(values, ident)).err
                # NoErr)
    => (parsed.err # NoErr /\ parsed.expr = NilExpr)

C9_Witness ==
    /\ op = "ParseWithTransform"
    /\ values = Set(GroupsBoth, QueryKeyFilterExpression,
                    JoinWords(<<wp1, wAND, wp2>>))
    /\ transformer.rejects = {"size"}
    /\ TransformCriteria(transformer, filterGet(values, wp1)).err = NoErr
    /\ parsed.err # NoErr
    /\ parsed.expr = NilExpr

RECURSIVE NoNilOperand(_)
\* the expression is not nil and neither is any operand in it
NoNilOperand(e) ==
    CASE e.kind \in {"And", "Or"} ->
           NoNilOperand(e.Left) /\ NoNilOperand(e.Right)
      [] e.kind = "Not" -> NoNilOperand(e.Value)
      [] OTHER -> e # NilExpr

\* C10: whenever ParseWithTransform with the passthrough transformer
\* returns a nil error, the expression it returns is not nil, every And
\* and Or in it has a left and a right operand and every Not an operand.
C10_NoNilOperands ==
    (/\ op = "ParseWithTransform"
     /\ transformer = PassthroughTransformer
     /\ parsed.err = NoErr)
    => NoNilOperand(parsed.expr)

----------------------------------------------------------------------------
(* Properties of the transformer muxes.                                    *)

\* C11: for a filter whose name has no registered transformer, the strict
\* map-form mux returns an error and no expression, and the lenient
\* map-form mux returns the input filter unchanged and no error.
C11_MuxStrictness ==
    /\ (/\ op = "StrictTransformerMux.TransformCriteria"
        /\ expr.Name \notin DOMAIN transformer.mux)
       => (parsed.err # NoErr /\ parsed.expr = NilExpr)
    /\ (/\ op = "TransformerMux.TransformCriteria"
        /\ expr.Name \notin DOMAIN transformer)
       => parsed = [expr |-> expr, err |-> NoErr]

C11_Witness ==
    /\ op = "StrictTransformerMux.TransformCriteria"
    /\ DOMAIN transformer.mux = {"size"}
    /\ expr = FilterA
    /\ parsed.expr = NilExpr
    /\ parsed.err = <<"unknown filter: value">>

\* C12: the struct-form mux with Strict = false returns, for a filter whose
\* name is not a key of Transformers, the input filter unchanged and no
\* error, and it does not panic.
C12_LenientStructMuxPassthrough ==
    (/\ op = "TransformerMux.TransformFilterToken"
     /\ ~transformer.Strict
     /\ expr.Name \notin DOMAIN transformer.Transformers)
    => (parsed # NilDereference /\ parsed = [expr |-> expr, err |-> NoErr])

----------------------------------------------------------------------------
(* Properties of the serializers on every kind of tree.                    *)

RECURSIVE Unsupported(_)
\* the identity and custom expressions of a tree, left to right
Unsupported(e) ==
    CASE e.kind \in {"And", "Or"} -> Unsupported(e.Left) \o Unsupported(e.Right)
      [] e.kind = "Not" -> Unsupported(e.Value)
      [] e.kind \in {"Identity", "Custom"} -> <<e>>
      [] OTHER -> <<>>

\* C13: Generate and BuildQuery return a non-nil error for a tree that
\* holds an identity or a custom expression, at the root or anywhere under
\* And, Or and Not nodes.
C13_UnsupportedLeafFails ==
    (op \in {"Generate", "BuildQuery"} /\ Unsupported(expr) # <<>>)
    => serr # NoErr

C13_Witness ==
    /\ op = "BuildQuery"
    /\ expr = AndFilter(FilterA, NotFilter(CustomFilter))
    /\ serr # NoErr

\* C14: BuildQuery renders a Not node as "NOT " followed by the text of its
\* operand: the q text of Not(x) is "NOT " + text(x), where text(x) is what
\* the operand's builder wrote.
C14_NotRendersOperand ==
    (op = "BuildQuery" /\ expr.kind = "Not" /\ serr = NoErr)
    => /\ QueryKeyFilterExpression \in DOMAIN values
       /\ values[QueryKeyFilterExpression]
            = <<"N", "O", "T", " ">>
              \o builderEvaluate(expr.Value, 1, NoValues).query

\* the failure a serializer reports for an identity or custom expression
SerializerFailure(e) ==
    IF op = "Generate" THEN ErrUnsupported[1]
    ELSE IF e.kind = "Identity"
    THEN "identity expression not supported for building queries"
    ELSE "custom expressions not supported by query filter builder"

RECURSIVE IdentLeaves(_)
\* the identifiers that become leaves of the parsed expression, left to
\* right, one entry for each occurrence
IdentLeaves(n) ==
    CASE n.kind = "BinaryExpr" ->
           IF n.Op \in {"&&", "||"}
           THEN IdentLeaves(n.X) \o IdentLeaves(n.Y) ELSE <<>>
      [] n.kind = "UnaryExpr" -> IdentLeaves(n.X)
      [] n.kind = "Ident" -> <<n.Name>>
      [] OTHER -> <<>>

\* the failures of the leaf ident: those of its group's validation, or
\* else that of the transformer
LeafFailures(ident) ==
    IF Incomplete(ident) THEN identErrors(filterGet(values, ident))
    ELSE TransformCriteria(transformer, filterGet(values, ident)).err

RECURSIVE Concat(_)
\* the concatenation of a sequence of sequences
Concat(ss) == IF ss = <<>> THEN <<>> ELSE Head(ss) \o Concat(Tail(ss))

\* the failures of all the leaves of the Go expression n, left to right
AllLeafFailures(n) ==
    Concat([i \in 1..Len(IdentLeaves(n)) |-> LeafFailures(IdentLeaves(n)[i])])

\* the leaves of the Go expression n whose parameter group is complete
CompleteLeaves(n) == SelectSeq(IdentLeaves(n), LAMBDA id : ~Incomplete(id))

\* C15: failure aggregation.  When a serializer evaluates an And/Or node,
\* the leaves of the right child are processed also when the left child
\* failed, and the error holds the failures of both children: one for each
\* identity or custom expression of the left child, then one for each of
\* the right child.  When the parser builds an And/Or node, the right
\* child is visited also when the left child failed (the transformer is
\* invoked for every complete leaf of both children) and the error holds
\* the failures of the leaves of both children.
C15_FailuresOfBothChildren ==
    /\ (op \in {"Generate", "BuildQuery"} /\ expr.kind \in {"And", "Or"})
       => /\ Len(assigned)
               = Len(LeavesOf(expr.Left)) + Len(LeavesOf(expr.Right))
          /\ serr = [i \in 1..Len(Unsupported(expr.Left)) |->
                        SerializerFailure(Unsupported(expr.Left)[i])]
                    \o [i \in 1..Len(Unsupported(expr.Right)) |->
                          SerializerFailure(Unsupported(expr.Right)[i])]
    /\ (/\ op = "ParseWithTransform"
        /\ GoExpr.err = NoErr
        /\ GoExpr.node.kind = "BinaryExpr"
        /\ GoExpr.node.Op \in {"&&", "||"})
       => /\ Len(called) = Len(CompleteLeaves(GoExpr.node.X))
                             + Len(CompleteLeaves(GoExpr.node.Y))
          /\ AllLeafFailures(GoExpr.node) # <<>>
                => parsed.err = <<"url query parse failed">>
                                \o AllLeafFailures(GoExpr.node.X)
                                \o AllLeafFailures(GoExpr.node.Y)

\* both children of an And node fail in a serializer, and the leaf of the
\* right child is processed all the same
C15_Witness ==
    /\ op = "Generate"
    /\ expr = AndFilter(IdentityFilter, OrFilter(FilterA, CustomFilter))
    /\ Len(serr) = 2
    /\ Len(assigned) = 1

\* the evaluator method that corresponds to a variant
MethodOf(kind) ==
    CASE kind = "Filter" -> "EvaluateFilter"
      [] kind = "And" -> "EvaluateAndFilter"
      [] kind = "Or" -> "EvaluateOrFilter"
      [] kind = "Not" -> "EvaluateNotFilter"
      [] kind = "Identity" -> "EvaluateIdentityFilter"

\* C16: query.EvaluateFilter(e, x) invokes exactly one method of e, the one
\* of x's variant (Filter, AndFilter, OrFilter, NotFilter, IdentityFilter),
\* on x itself, and returns what that method returned; no method is invoked
\* for the children of x.
C16_DoubleDispatch ==
    (/\ op = "EvaluateFilter"
     /\ expr.kind \in {"Filter", "And", "Or", "Not", "Identity"})
    => /\ Len(called) = 1
       /\ called[1].call.method = MethodOf(expr.kind)
       /\ expr.kind # "Identity" => called[1].call.arg = expr
       /\ serr = called[1].result

C16_Witness ==
    /\ op = "EvaluateFilter"
    /\ expr = OrFilter(FilterA, NotFilter(IdentityFilter))
    /\ called[1].call.method = "EvaluateOrFilter"
    /\ serr = <<"EvaluateOrFilter failed">>

----------------------------------------------------------------------------
(* Properties of the parser's use of the transformer.                      *)

RECURSIVE TreeLeaves(_)
\* what stands at the leaf positions of an expression tree, left to right
TreeLeaves(e) ==
    CASE e.kind \in {"And", "Or"} -> TreeLeaves(e.Left) \o TreeLeaves(e.Right)
      [] e.kind = "Not" -> TreeLeaves(e.Value)
      [] OTHER -> <<e>>

RECURSIVE LiteralFree(_)
\* every leaf the walk reaches in the Go expression is an identifier
LiteralFree(n) ==
    CASE n.kind = "BinaryExpr" ->
           n.Op \in {"&&", "||"} /\ LiteralFree(n.X) /\ LiteralFree(n.Y)
      [] n.kind = "UnaryExpr" -> LiteralFree(n.X)
      [] OTHER -> n.kind = "Ident"

\* C17: during one parse the transformer is invoked exactly once for each
\* identifier leaf whose parameter group is complete, in the order of the
\* leaves and with that group as its argument, and never for a leaf whose
\* group failed validation; when the parse succeeds, the leaves of the
\* returned tree are the expressions the transformer returned, in order.
C17_TransformerOncePerLeaf ==
    (op = "ParseWithTransform" /\ GoExpr.err = NoErr)
    => /\ Len(called) = Len(CompleteLeaves(GoExpr.node))
       /\ \A i \in 1..Len(called) :
             /\ called[i].method = "TransformCriteria"
             /\ called[i].arg
                  = filterGet(values, CompleteLeaves(GoExpr.node)[i])
       /\ (parsed.err = NoErr /\ LiteralFree(GoExpr.node))
             => TreeLeaves(parsed.expr)
                  = [i \in 1..Len(called) |-> called[i].result.expr]

\* one leaf fails validation and is not transformed, the other is
\* transformed although the parse fails
C17_Witness ==
    /\ op = "ParseWithTransform"
    /\ values = Set(GroupsP1NoName, QueryKeyFilterExpression,
                    JoinWords(<<wp1, wAND, wp2>>))
    /\ transformer.rewrites = {"value"}
    /\ Len(called) = 1
    /\ called[1].arg = FilterB
    /\ parsed.err # NoErr

\* the text is one identifier: a letter followed by letters and digits
IsIdentifier(text) ==
    /\ text # <<>>
    /\ text[1] \in Letters
    /\ \A i \in 1..Len(text) : text[i] \in Letters \cup Digits

\* C18: when q is an identifier other than and/or/not in any letter case
\* and the parameters hold a complete group under exactly that spelling,
\* ParseWithTransform succeeds and returns the atomic filter of that group
\* (as the transformer returns it).
C18_IdentifierResolvesOwnGroup ==
    LET id == GetText(values, QueryKeyFilterExpression)
        r == TransformCriteria(transformer, filterGet(values, id))
    IN  (/\ op = "ParseWithTransform"
         /\ IsIdentifier(id)
         /\ ToLower(id) \notin {OperationAND, OperationOR, OperationNOT}
         /\ ~Incomplete(id)
         /\ r.err = NoErr)
        => parsed = [expr |-> r.expr, err |-> NoErr]

----------------------------------------------------------------------------
(* Properties of the AST builder on adjacent variables and on a trailing   *)
(* operator.                                                               *)

\* the token at index k and the token before it are both variables
AdjacentAt(k) == Sym(k - 1) = symbolVAR /\ Sym(k) = symbolVAR

\* the token list has two adjacent variables
HasAdjacent == \E k \in 2..Len(tokens) : AdjacentAt(k)

\* the index of the first variable that directly follows a variable
FirstAdjacent ==
    CHOOSE k \in 2..Len(tokens) :
        AdjacentAt(k) /\ \A j \in 2..(k - 1) : ~AdjacentAt(j)

\* the tokens before the first variable that directly follows a variable
BeforeAdjacent == SubSeq(tokens, 1, FirstAdjacent - 1)

\* C19: when a variable stands where a binary operator is expected (it
\* directly follows a variable and the tokens before it build a tree),
\* build returns without error the tree of the tokens before it, whatever
\* the remaining tokens are; on two variables it returns the first.
C19_StopsAtAdjacentVariable ==
    (/\ op = "build"
     /\ HasAdjacent
     /\ build(BeforeAdjacent).err = NoErr)
    => /\ ast.err = NoErr
       /\ ast.node # NilNode
       /\ ast.node = build(BeforeAdjacent).node
       /\ Shape(<<symbolVAR, symbolVAR>>) => Built(LeafAt(1))

\* the tokens after the second variable are an operator without operand
C19_Witness ==
    /\ op = "build"
    /\ tokens = <<wp1, wAND, wp2, wp1, wOR>>
    /\ ast.err = NoErr
    /\ ast.node = Node(tokenFromString(wAND),
                       Node(tokenFromString(wp1), NilNode, NilNode),
                       Node(tokenFromString(wp2), NilNode, NilNode))

\* the last token is an operator
EndsWithOperator == tokens # <<>> /\ isOperation(Sym(Len(tokens)))

\* C20 as stated: build returns a syntax error for every token list whose
\* last token is an operator, whatever precedes it.
C20_TrailingOperatorFails ==
    (op = "build" /\ EndsWithOperator) => ast.err # NoErr

\* C20 amended: build returns a syntax error and no tree for every token
\* list whose last token is an operator and in which no variable directly
\* follows a variable, that is, whenever build reads the list to its end.
C20_TrailingOperatorFailsWhenRead ==
    (op = "build" /\ EndsWithOperator /\ ~HasAdjacent)
    => (ast.err # NoErr /\ ast.node = NilNode)

C20_Witness ==
    /\ op = "build"
    /\ tokens = <<wNOT, wp1, wOR, wp2, wAND>>
    /\ ast.err # NoErr
    /\ ast.node = NilNode

----------------------------------------------------------------------------
(* Further properties of the parser.                                       *)

\* C21: every atomic filter of a tree that a parse with the passthrough
\* transformer returns has one of the conditions eq, neq, contains, lt,
\* lte, gt, gte, starts_with, and a leaf whose group has any other
\* non-empty condition makes the parse fail.
C21_ConditionsAreClosed ==
    (op = "ParseWithTransform" /\ transformer = PassthroughTransformer)
    => /\ parsed.err = NoErr
            => \A i \in 1..Len(LeavesOf(parsed.expr)) :
                  LeavesOf(parsed.expr)[i].Condition \in FilterConditions
       /\ (/\ GoExpr.err = NoErr
           /\ \E id \in LeafIdents(GoExpr.node) :
                 LET condition == Get(values, FilterKey(id, "condition"))
                 IN  condition # "" /\ condition \notin FilterConditions)
            => parsed.err # NoErr

----------------------------------------------------------------------------
(* Properties of Generate calls that run side by side.                     *)

\* C22: two Generate calls interleaved in any order, each on its own tree
\* and its own url.Values, share no counter, and each leaves in its
\* url.Values exactly the q text and the parameter groups that Generate
\* leaves there when it runs alone on that tree.
C22_ConcurrentGenerateIndependent ==
    op = "GenerateBoth" =>
      /\ \A cell \in DOMAIN gen.counters : cell.call \in {1, 2}
      /\ \A call \in {1, 2} :
            gen.returned[call]
              => gen.query[call] = Generate(gen.trees[call], NoValues).query

\* both calls have returned, each with the result of a call run alone
C22_Witness ==
    /\ op = "GenerateBoth"
    /\ gen.trees = <<AndFilter(FilterA, FilterB),
                     OrFilter(FilterB, NotFilter(FilterA))>>
    /\ gen.returned = <<TRUE, TRUE>>
    /\ gen.query[1] = Generate(AndFilter(FilterA, FilterB), NoValues).query
    /\ gen.query[2][FilterKey(GenerateIdent(1), "name")] = "value"

----------------------------------------------------------------------------
(* Further properties of the AST builder.                                  *)

\* C23: in every AST build returns, each NOT node has exactly one operand
\* (left set, right unset) and each AND/OR node has left and right set.
C23_NotHasOneOperand ==
    (op = "build" /\ ast.err = NoErr)
    => \A n \in Nodes(ast.node) :
          /\ n.token.symbol = symbolNOT
                => (n.left # NilNode /\ n.right = NilNode)
          /\ n.token.symbol \in {symbolAND, symbolOR}
                => (n.left # NilNode /\ n.right # NilNode)

\* the upper-case form of a lower-case letter of the keywords
UpperOf(c) ==
    CASE c = "a" -> "A"
      [] c = "n" -> "N"
      [] c = "d" -> "D"
      [] c = "o" -> "O"
      [] c = "r" -> "R"
      [] c = "t" -> "T"

\* str spells the lower-case keyword in some letter case
Spells(str, keyword) ==
    /\ Len(str) = Len(keyword)
    /\ \A k \in 1..Len(keyword) : str[k] \in {keyword[k], UpperOf(keyword[k])}

\* the symbol the claim gives a string
SymbolOf(str) ==
    CASE Spells(str, <<"a", "n", "d">>) -> symbolAND
      [] Spells(str, <<"o", "r">>) -> symbolOR
      [] Spells(str, <<"n", "o", "t">>) -> symbolNOT
      [] OTHER -> symbolVAR

\* C24: tokenFromString gives a string the symbol AND, OR or NOT exactly
\* when the string spells and, or, not in some letter case, gives every
\* other string the symbol VARIABLE, and keeps the string as it is spelled
\* as the token's value; the tokens in the nodes build returns are such
\* tokens of the strings handed to build.
C24_TokenClassification ==
    op = "build" =>
      /\ \A i \in 1..Len(tokens) :
            tokenFromString(tokens[i])
              = [value |-> tokens[i], symbol |-> SymbolOf(tokens[i])]
      /\ \A n \in Nodes(ast.node) :
            \E i \in 1..Len(tokens) :
                n.token = [value |-> tokens[i], symbol |-> SymbolOf(tokens[i])]

C24_Witness ==
    /\ op = "build"
    /\ tokens = <<wno, wAnd, wnOt, wands>>
    /\ ast.err = NoErr
    /\ ast.node.token = [value |-> wAnd, symbol |-> symbolAND]
    /\ ast.node.left.token = [value |-> wno, symbol |-> symbolVAR]
    /\ ast.node.right.token = [value |-> wnOt, symbol |-> symbolNOT]

\* the symbols of the nodes strictly below n
SymbolsBelow(n) ==
    {m.token.symbol : m \in Nodes(n.left) \cup Nodes(n.right)}

\* C25: in every AST build returns, no OR node is below an AND node or a
\* NOT node, and no AND node is below a NOT node.
C25_GroupingFollowsPrecedence ==
    (op = "build" /\ ast.err = NoErr)
    => \A n \in Nodes(ast.node) :
          /\ n.token.symbol = symbolAND => symbolOR \notin SymbolsBelow(n)
          /\ n.token.symbol = symbolNOT
                => (symbolOR \notin SymbolsBelow(n)
                    /\ symbolAND \notin SymbolsBelow(n))

C25_Witness ==
    /\ op = "build"
    /\ tokens = <<wNOT, wp1, wAND, wNOT, wp2, wOR, wp3>>
    /\ ast.err = NoErr
    /\ ast.node.token.symbol = symbolOR
    /\ ast.node.left.token.symbol = symbolAND
    /\ SymbolsBelow(ast.node.left) = {symbolNOT, symbolVAR}

RECURSIVE Alternates(_, _)
\* the tokens from index i on are an operand (NOT tokens and then a
\* variable), followed by nothing or by AND/OR and such tokens again
Alternates(toks, i) ==
    IF i > Len(toks) THEN FALSE
    ELSE IF tokenFromString(toks[i]).symbol = symbolNOT
    THEN Alternates(toks, i + 1)
    ELSE IF tokenFromString(toks[i]).symbol # symbolVAR THEN FALSE
    ELSE \/ i = Len(toks)
         \/ /\ tokenFromString(toks[i + 1]).symbol \in {symbolAND, symbolOR}
            /\ Alternates(toks, i + 2)

RECURSIVE VarLeaves(_)
\* the values of the variable leaves of an AST, left to right
VarLeaves(n) ==
    IF n = NilNode THEN <<>>
    ELSE IF n.token.symbol = symbolVAR THEN <<n.token.value>>
    ELSE VarLeaves(n.left) \o VarLeaves(n.right)

\* the variable tokens handed to build, in order
VarTokens == SelectSeq(tokens, LAMBDA str : SymbolOf(str) = symbolVAR)

\* C26: for a token list that alternates operands (a variable after zero
\* or more NOT tokens) with single AND/OR tokens and ends with an operand,
\* build succeeds, reads every token, and the variable leaves of the AST
\* are, left to right, the variable tokens of the list.
C26_LeavesInTokenOrder ==
    (op = "build" /\ Alternates(tokens, 1))
    => /\ ast.err = NoErr
       /\ ast.node # NilNode
       /\ build(tokens).position = Len(tokens)
       /\ VarLeaves(ast.node) = VarTokens

C26_Witness ==
    /\ op = "build"
    /\ tokens = <<wp1, wOR, wp2, wAND, wNOT, wp3>>
    /\ ast.err = NoErr
    /\ VarLeaves(ast.node) = <<wp1, wp2, wp3>>

\* the operator at the cursor makes parseNode's outer loop run
EntersLoop(position, minPrecendence) ==
    /\ peek(tokens, position).ok
    /\ isOperation(peek(tokens, position).token.symbol)
    /\ precedence(peek(tokens, position).token.symbol) >= minPrecendence

\* C27: build terminates on every token list.  peek returns a token and a
\* flag and no cursor; peek and next report ok exactly while the cursor is
\* before the end, and next moves the cursor by one; every call of primary
\* moves the cursor forward; every call of parseNode that enters its loop
\* (as each recursive call does) moves the cursor forward and no call moves
\* it back; and build ends with the cursor at most one past the end.
C27_BuildTerminates ==
    op = "build" =>
      /\ \A position \in 0..(Len(tokens) + 1) :
            /\ DOMAIN peek(tokens, position) = {"token", "ok"}
            /\ peek(tokens, position).ok <=> position < Len(tokens)
            /\ next(tokens, position).ok = peek(tokens, position).ok
            /\ next(tokens, position).token = peek(tokens, position).token
            /\ next(tokens, position).position = position + 1
      /\ \A position \in 0..Len(tokens) :
            /\ primary(tokens, position).position > position
            /\ primary(tokens, position).position <= Len(tokens) + 1
            /\ \A minPrecendence \in 0..3 :
                  LET r == parseNode(tokens, position, NilNode, minPrecendence)
                  IN  /\ r.position >= position
                      /\ r.position <= Len(tokens) + 1
                      /\ EntersLoop(position, minPrecendence)
                            => r.position > position
      /\ build(tokens).position <= Len(tokens) + 1
      /\ ast = [node |-> build(tokens).node, err |-> build(tokens).err]

\* build has ended on a list whose last operator has no operand: the
\* cursor went one past the end
C27_Witness ==
    /\ op = "build"
    /\ tokens = <<wp1, wAND, wNOT>>
    /\ ast.err # NoErr
    /\ build(tokens).position = Len(tokens) + 1
    /\ ~peek(tokens, Len(tokens)).ok

----------------------------------------------------------------------------
(* Further properties of the serializers.                                  *)

\* C28: after Generate or BuildQuery returns, with or without error, the
\* tree in memory is the tree that was handed in; and after an evaluator
\* that writes to the atomic Filter it receives has run, the tree is
\* unchanged as well, because the evaluator received a copy.
C28_TreeUnchanged ==
    op \in {"Generate", "BuildQuery", "WritingEvaluator"} => after = expr

C28_Witness ==
    /\ op = "WritingEvaluator"
    /\ expr = AndFilter(FilterA, NotFilter(FilterA))
    /\ after = expr
    /\ evaluatorWrite("writer", FilterA) # FilterA

\* C29: the map BuildQuery returns holds the key q exactly when the error is
\* nil; and when BuildQuery returns an error, the map holds, for every
\* atomic leaf of the tree, the filter[id][name|condition|value] entries of
\* that leaf under the identifier the leaf was given.
C29_QueryKeyIffNoError ==
    op = "BuildQuery" =>
      /\ QueryKeyFilterExpression \in DOMAIN values <=> serr = NoErr
      /\ serr # NoErr =>
            /\ Len(assigned) = Len(LeavesOf(expr))
            /\ \A i \in 1..Len(assigned) :
                  /\ \A field \in {"name", "condition", "value"} :
                        FilterKey(assigned[i], field) \in DOMAIN values
                  /\ filterGet(values, assigned[i]) = LeavesOf(expr)[i]

\* C30: Parser{Transformer: T}.ParseFilter(r) returns what
\* ParseWithTransform(r.URL.Query(), T) returns, for every transformer T.
C30_ParseFilterUsesTransformer ==
    op = "ParseFilter" =>
      LET r == ParseWithTransform(values, transformer)
      IN  parsed = [expr |-> r.expr, err |-> r.err]

====
